---- MODULE Spec2Model ----
(***************************************************************************)
(* Model of the stablecoin payment router of mcp-payments                  *)
(* (src/app/services/payment_router.py): the liquidity graph built from    *)
(* registry and pool queries, the fee-minimising route search and the      *)
(* hop-by-hop route execution; and of the batch payment records of        *)
(* src/app/services/payment_service.py.                                    *)
(***************************************************************************)
EXTENDS Integers, Sequences, FiniteSets, TLC

VARIABLES
    chain,      \* what the registry and pool contracts answer to the router's queries
    graph,      \* PaymentRouter.graph: the edges in insertion order
    phase,      \* position of the sequential caller of find_best_route
    call,       \* arguments of the find_best_route call
    result,     \* what that call returned (or that it raised)
    run,        \* the execute_route coroutine: its position, arguments and locals
    txpool,     \* the transactions the chain has accepted, in submission order
    thr,        \* threads inside find_best_route: position, arguments and locals
    pay         \* PaymentService: the payments table, the batches and the calls made

routerVars == <<chain, graph, phase, call, result>>

execVars == <<run, txpool>>

vars == <<chain, graph, phase, call, result, run, txpool, thr, pay>>

(***************************************************************************)
(* Tokens, ordered pairs and the queries _build_graph makes for a pair.    *)
(***************************************************************************)
Tokens == {"A", "B", "C"}

Pairs == {p \in Tokens \X Tokens : p[1] # p[2]}

Queries == {"getBalance", "getMinLiquidity", "getStablecoinPrice", "swapFee"}

Range(s) == {s[i] : i \in 1..Len(s)}

(***************************************************************************)
(* Program constants of find_best_route.                                   *)
(***************************************************************************)
BaseGas == 21000

SwapGas == 100000

BpsDenominator == 10000

(***************************************************************************)
(* Bounds of the model.                                                    *)
(***************************************************************************)
MaxHopsBound == 2

\* int(x): Python truncates towards zero
IntTrunc(n, d) == IF n >= 0 THEN n \div d ELSE -((-n) \div d)

(***************************************************************************)
(* _build_graph                                                            *)
(***************************************************************************)
QueryFails(c, a, b, q) == <<a, b, q>> \in c.failing

\* the try block of one ordered pair: the edge it adds, if any.  The weight
\* from_price/to_price is kept as the pair of prices; the prices explored are
\* 0, 1 and 2, for which the float quotient and its products are exact.
EdgeAttempt(c, a, b) ==
    IF QueryFails(c, a, b, "getBalance") \/ QueryFails(c, a, b, "getMinLiquidity")
    THEN <<>>
    ELSE IF c.balance[b] >= c.minLiquidity[b]
    THEN IF \/ QueryFails(c, a, b, "getStablecoinPrice")
            \/ c.price[b] = 0
            \/ QueryFails(c, a, b, "swapFee")
         THEN <<>>
         ELSE << [from |-> a, to |-> b,
                  weight |-> <<c.price[a], c.price[b]>>,
                  fee |-> c.swapFee[<<a, b>>]] >>
    ELSE <<>>

\* DiGraph.add_edge: a new edge is appended, an existing one gets the new attributes
AddEdge(g, e) ==
    IF \E i \in 1..Len(g) : g[i].from = e.from /\ g[i].to = e.to
    THEN [i \in 1..Len(g) |->
             IF g[i].from = e.from /\ g[i].to = e.to THEN e ELSE g[i]]
    ELSE Append(g, e)

\* the body of the two nested loops for the k-th ordered pair of the list
PairStep(c, coins, g, k) ==
    LET n == Len(coins)
        a == coins[((k - 1) \div n) + 1]
        b == coins[((k - 1) % n) + 1]
        att == EdgeAttempt(c, a, b)
    IN IF a = b \/ att = <<>> THEN g ELSE AddEdge(g, att[1])

\* variant of BuildLoop: the first pair whose attempt fails ends the build
RECURSIVE BuildLoopAbort(_, _, _, _)
BuildLoopAbort(c, coins, g, k) ==
    IF k > Len(coins) * Len(coins) THEN g
    ELSE LET n == Len(coins)
             a == coins[((k - 1) \div n) + 1]
             b == coins[((k - 1) % n) + 1]
         IN IF a # b /\ ((\E q \in Queries : QueryFails(c, a, b, q)) \/ c.price[b] = 0)
            THEN g
            ELSE BuildLoopAbort(c, coins, PairStep(c, coins, g, k), k + 1)

RECURSIVE BuildLoop(_, _, _, _)
BuildLoop(c, coins, g, k) ==
    IF k > Len(coins) * Len(coins) THEN g
    ELSE BuildLoop(c, coins, PairStep(c, coins, g, k), k + 1)

\* getSupportedStablecoins().call() is made outside the try block
BuildRaises(c) == c.registry = "error"

\* variant of GraphClear: the edges of the previous build are kept
GraphClearKeeps(g) == g

\* self.graph.clear()
GraphClear(g) == <<>>

\* self.graph after _build_graph has run (or has raised) against chain state c
BuildGraph(g, c) ==
    IF BuildRaises(c) THEN GraphClear(g)
    ELSE BuildLoop(c, c.stablecoins, GraphClear(g), 1)

(***************************************************************************)
(* networkx views of the graph                                             *)
(***************************************************************************)
Nodes(g) == {g[i].from : i \in 1..Len(g)} \cup {g[i].to : i \in 1..Len(g)}

HasEdge(g, a, b) == \E i \in 1..Len(g) : g[i].from = a /\ g[i].to = b

EdgeData(g, a, b) == g[CHOOSE i \in 1..Len(g) : g[i].from = a /\ g[i].to = b]

RECURSIVE Successors(_, _)
Successors(g, u) ==
    IF g = <<>> THEN <<>>
    ELSE IF Head(g).from = u THEN <<Head(g).to>> \o Successors(Tail(g), u)
    ELSE Successors(Tail(g), u)

RECURSIVE SimplePathsFrom(_, _, _, _, _)
SimplePathsFrom(g, visited, children, target, cutoff) ==
    IF children = <<>> THEN <<>>
    ELSE LET child == Head(children)
             rest == SimplePathsFrom(g, visited, Tail(children), target, cutoff)
         IN IF child \in Range(visited) THEN rest
            ELSE IF child = target THEN <<Append(visited, child)>> \o rest
            ELSE IF Len(visited) < cutoff
            THEN SimplePathsFrom(g, Append(visited, child), Successors(g, child),
                                 target, cutoff) \o rest
            ELSE rest

\* variant of AllSimplePaths: the cutoff admits one hop too many
AllSimplePathsOneMore(g, source, target, cutoff) ==
    IF cutoff < 1 THEN <<>>
    ELSE SimplePathsFrom(g, <<source>>, Successors(g, source), target, cutoff + 1)

\* nx.all_simple_paths(G, source, target, cutoff) for nodes of G, source # target
AllSimplePaths(g, source, target, cutoff) ==
    IF cutoff < 1 THEN <<>>
    ELSE SimplePathsFrom(g, <<source>>, Successors(g, source), target, cutoff)

(***************************************************************************)
(* find_best_route                                                         *)
(***************************************************************************)
RouteResult(path, amounts, total_fee, estimated_gas) ==
    [status |-> "route", path |-> path, amounts |-> amounts,
     total_fee |-> total_fee, estimated_gas |-> estimated_gas]

NoneResult == [status |-> "none", path |-> <<>>, amounts |-> <<>>,
               total_fee |-> 0, estimated_gas |-> 0]

RaisedResult == [status |-> "raised", path |-> <<>>, amounts |-> <<>>,
                 total_fee |-> 0, estimated_gas |-> 0]

\* variant of WalkPath: every hop's fee is taken on the input amount of the route
RECURSIVE WalkPathStaleFee(_, _, _, _, _, _)
WalkPathStaleFee(g, path, i, amounts, total_fee, estimated_gas) ==
    IF i > Len(path) - 1
    THEN RouteResult(path, amounts, total_fee, estimated_gas)
    ELSE LET edge == EdgeData(g, path[i], path[i + 1])
             last == amounts[Len(amounts)]
             fee == (last * edge.fee) \div BpsDenominator
             output_amount == IntTrunc((last - fee) * edge.weight[1], edge.weight[2])
         IN WalkPathStaleFee(g, path, i + 1, Append(amounts, output_amount),
                             total_fee + ((amounts[1] * edge.fee) \div BpsDenominator),
                             estimated_gas + SwapGas)

\* variant of WalkPath: the output amount is rounded to the nearest integer
RECURSIVE WalkPathRounds(_, _, _, _, _, _)
WalkPathRounds(g, path, i, amounts, total_fee, estimated_gas) ==
    IF i > Len(path) - 1
    THEN RouteResult(path, amounts, total_fee, estimated_gas)
    ELSE LET edge == EdgeData(g, path[i], path[i + 1])
             last == amounts[Len(amounts)]
             fee == (last * edge.fee) \div BpsDenominator
             output_amount == (2 * (last - fee) * edge.weight[1] + edge.weight[2])
                                 \div (2 * edge.weight[2])
         IN WalkPathRounds(g, path, i + 1, Append(amounts, output_amount),
                           total_fee + fee, estimated_gas + SwapGas)

\* variant of WalkPath: the gas of a hop is not added for the last hop
RECURSIVE WalkPathGasShort(_, _, _, _, _, _)
WalkPathGasShort(g, path, i, amounts, total_fee, estimated_gas) ==
    IF i > Len(path) - 1
    THEN RouteResult(path, amounts, total_fee, estimated_gas)
    ELSE LET edge == EdgeData(g, path[i], path[i + 1])
             last == amounts[Len(amounts)]
             fee == (last * edge.fee) \div BpsDenominator
             output_amount == IntTrunc((last - fee) * edge.weight[1], edge.weight[2])
         IN WalkPathGasShort(g, path, i + 1, Append(amounts, output_amount),
                             total_fee + fee,
                             IF i = Len(path) - 1 /\ i > 1 THEN estimated_gas
                             ELSE estimated_gas + SwapGas)

\* the inner loop over the hops of one path, from hop i on
RECURSIVE WalkPath(_, _, _, _, _, _)
WalkPath(g, path, i, amounts, total_fee, estimated_gas) ==
    IF i > Len(path) - 1
    THEN RouteResult(path, amounts, total_fee, estimated_gas)
    ELSE LET edge == EdgeData(g, path[i], path[i + 1])
             last == amounts[Len(amounts)]
             fee == (last * edge.fee) \div BpsDenominator
             output_amount == IntTrunc((last - fee) * edge.weight[1], edge.weight[2])
         IN WalkPath(g, path, i + 1, Append(amounts, output_amount),
                     total_fee + fee, estimated_gas + SwapGas)

\* variant of Improves: the comparison is reversed
ImprovesReversed(total_fee, best) == best = <<>> \/ total_fee > best[1].total_fee

\* variant of Improves: a candidate of equal fee replaces the current best
ImprovesOnTie(total_fee, best) == best = <<>> \/ total_fee <= best[1].total_fee

\* total_fee < min_total_fee, where best = <<>> stands for min_total_fee = inf
Improves(total_fee, best) == best = <<>> \/ total_fee < best[1].total_fee

\* the outer loop over the enumerated paths
RECURSIVE SelectBest(_, _, _, _)
SelectBest(g, paths, amount, best) ==
    IF paths = <<>> THEN best
    ELSE LET r == WalkPath(g, Head(paths), 1, <<amount>>, 0, BaseGas)
         IN SelectBest(g, Tail(paths), amount,
                       IF Improves(r.total_fee, best) THEN <<r>> ELSE best)

\* list(nx.all_simple_paths(...)): NodeNotFound when an endpoint is no node
EnumeratePaths(g, from_token, to_token, max_hops) ==
    IF from_token \notin Nodes(g) \/ to_token \notin Nodes(g)
    THEN [raised |-> TRUE, paths |-> <<>>]
    ELSE [raised |-> FALSE,
          paths |-> AllSimplePaths(g, from_token, to_token, max_hops)]

\* self.graph[path[i]][path[i+1]] raises KeyError for an edge the graph lacks
LookupFails(g, paths) ==
    \E n \in 1..Len(paths) : \E i \in 1..(Len(paths[n]) - 1) :
        ~HasEdge(g, paths[n][i], paths[n][i + 1])

\* variant of EvaluatePaths: the exception of the enumeration is not caught
EvaluatePathsUncaught(g, enum, amount) ==
    IF enum.raised THEN RaisedResult
    ELSE IF enum.paths = <<>> THEN NoneResult
    ELSE IF LookupFails(g, enum.paths) THEN NoneResult
    ELSE SelectBest(g, enum.paths, amount, <<>>)[1]

\* lines 88-125 for the enumerated paths: an exception is caught and gives None
EvaluatePaths(g, enum, amount) ==
    IF enum.raised \/ enum.paths = <<>> THEN NoneResult
    ELSE IF LookupFails(g, enum.paths) THEN NoneResult
    ELSE SelectBest(g, enum.paths, amount, <<>>)[1]

TrivialRoute(token, amount) == RouteResult(<<token>>, <<amount>>, 0, BaseGas)

\* find_best_route after the graph refresh
SearchGraph(g, from_token, to_token, amount, max_hops) ==
    IF from_token = to_token
    THEN TrivialRoute(from_token, amount)
    ELSE EvaluatePaths(g, EnumeratePaths(g, from_token, to_token, max_hops), amount)

FindBestRoute(g, c, from_token, to_token, amount, max_hops) ==
    IF BuildRaises(c) THEN RaisedResult
    ELSE SearchGraph(BuildGraph(g, c), from_token, to_token, amount, max_hops)

(***************************************************************************)
(* Chain states and arguments the model explores.                          *)
(***************************************************************************)
TokenLists == {<<>>, <<"A", "B">>, <<"A", "B", "C">>, <<"C", "B", "A">>}

RegistryResponses ==
    {[registry |-> "ok", stablecoins |-> l] : l \in TokenLists}
    \cup {[registry |-> "error", stablecoins |-> <<>>]}

MakeChain(r, bal, minl, pr, fees, failing) ==
    [registry |-> r.registry, stablecoins |-> r.stablecoins,
     balance |-> bal, minLiquidity |-> minl, price |-> pr,
     swapFee |-> fees, failing |-> failing]

AllOnes == [t \in Tokens |-> 1]

\* balances: every pool at its minimum, or one pool drained
RouteBalances == {AllOnes} \cup {[AllOnes EXCEPT ![t] = 0] : t \in Tokens}

RoutePrices == {AllOnes, [AllOnes EXCEPT !["B"] = 2], [AllOnes EXCEPT !["C"] = 2]}

UniformFee == [p \in Pairs |-> 30]

\* the fee read for one pair may differ from the fee read for the others
RouteFees == {UniformFee} \cup {[UniformFee EXCEPT ![p] = 100] : p \in Pairs}

RouteFailing == {{}} \cup {{<<p[1], p[2], "getBalance">>} : p \in Pairs}

RouteChains ==
    {MakeChain(r, bal, AllOnes, pr, fees, f) :
        r \in RegistryResponses, bal \in RouteBalances, pr \in RoutePrices,
        fees \in RouteFees, f \in RouteFailing}

\* chain states at construction: the constructor's build did not raise
InitialChains ==
    {MakeChain(r, bal, AllOnes, AllOnes, UniformFee, {}) :
        r \in {x \in RegistryResponses : x.registry = "ok"},
        bal \in {AllOnes, [AllOnes EXCEPT !["B"] = 0]}}

\* chain states for the graph build: balances below, at and above the minimum,
\* a zero price, and one failing query of any kind for one ordered pair
BuildBalances ==
    {AllOnes} \cup {[AllOnes EXCEPT ![t] = v] : t \in Tokens, v \in {0, 2}}

BuildMinLiquidity == {AllOnes} \cup {[AllOnes EXCEPT ![t] = 2] : t \in Tokens}

BuildPrices ==
    {AllOnes, [AllOnes EXCEPT !["B"] = 2]} \cup {[AllOnes EXCEPT ![t] = 0] : t \in Tokens}

BuildFailing == {{}} \cup {{<<p[1], p[2], q>>} : p \in Pairs, q \in Queries}

BuildChains ==
    {MakeChain(r, bal, minl, pr, UniformFee, f) :
        r \in RegistryResponses, bal \in BuildBalances, minl \in BuildMinLiquidity,
        pr \in BuildPrices, f \in BuildFailing}

Amounts == {333, 10000}

NoCall == [from_token |-> "A", to_token |-> "A", amount |-> 0, max_hops |-> 0]

\* the threads that may be inside find_best_route, none of them yet
Threads == {1, 2}

ThreadIdle ==
    [pc |-> "idle", call |-> NoCall, stablecoins |-> <<>>, k |-> 0,
     enum |-> [raised |-> FALSE, paths |-> <<>>], result |-> NoneResult]

ConcInit == thr = [t \in Threads |-> ThreadIdle]

\* PaymentService on an empty database
PayIdle == [payments |-> <<>>, batches |-> <<>>, txs |-> 0, outcomes |-> <<>>]

PayInit == pay = PayIdle

(***************************************************************************)
(* execute_route                                                           *)
(***************************************************************************)
SwapTxGas == 200000

TransferTxGas == 100000

SlippageNumerator == 99

SlippageDenominator == 100

PoolAddress == "pool"

\* what can make a transact() call, or the ABI load before the transfer, raise
Causes == {"rejected", "timeout"}

NoRoute == [path |-> <<>>, amounts |-> <<>>]

\* execute_route before it is called
RunIdle ==
    [pc |-> "pending", route |-> NoRoute, sender |-> "", recipient |-> "",
     i |-> 0, tx_hashes |-> <<>>, current_holder |-> "",
     exc |-> "", raised |-> [cause |-> ""], returned |-> <<>>]

\* variant of SwapRequest: the minimum output is taken on the input amount,
\* and the request is always sent from the sender
SwapRequestStale(r) ==
    LET from_amount == r.route.amounts[r.i + 1]
    IN [kind |-> "swap",
        token |-> r.route.path[r.i + 1],
        to |-> r.route.path[r.i + 2],
        amount |-> from_amount,
        min_out |-> (from_amount * SlippageNumerator) \div SlippageDenominator,
        sender |-> r.sender,
        gas |-> SwapTxGas]

\* pool.functions.swap(from_token, to_token, from_amount, min_to_amount)
\*     .transact({'from': current_holder, 'gas': 200000}) for hop i (0-based)
SwapRequest(r) ==
    LET from_amount == r.route.amounts[r.i + 1]
        to_amount == r.route.amounts[r.i + 2]
    IN [kind |-> "swap",
        token |-> r.route.path[r.i + 1],
        to |-> r.route.path[r.i + 2],
        amount |-> from_amount,
        min_out |-> (to_amount * SlippageNumerator) \div SlippageDenominator,
        sender |-> r.current_holder,
        gas |-> SwapTxGas]

\* token_contract.functions.transfer(recipient, final_amount)
\*     .transact({'from': current_holder, 'gas': 100000})
TransferRequest(r) ==
    [kind |-> "transfer",
     token |-> r.route.path[Len(r.route.path)],
     to |-> r.recipient,
     amount |-> r.route.amounts[Len(r.route.amounts)],
     min_out |-> 0,
     sender |-> r.current_holder,
     gas |-> TransferTxGas]

\* the chain accepts a transaction: it is pending until it is mined.  prev
\* records the state of the previously accepted transaction at that moment.
Accept(pool, req) ==
    Append(pool, [request |-> req, status |-> "pending",
                  prev |-> IF pool = <<>> THEN "none" ELSE pool[Len(pool)].status])

\* tx.hex() of the transaction just accepted
TxId(pool) == Len(pool) + 1

\* variant of AfterHop: the loop stops one hop early
AfterHopEarly(r, i) == IF i >= Len(r.route.path) - 2 THEN "transferring" ELSE "swapping"

\* range(len(route.path) - 1) is exhausted after hop i
AfterHop(r, i) == IF i >= Len(r.route.path) - 1 THEN "transferring" ELSE "swapping"

ExecuteRouteStart(routes) ==
    /\ run.pc = "pending"
    /\ \E rt \in routes :
          run' = [run EXCEPT !.route = rt, !.sender = "sender",
                             !.recipient = "recipient",
                             !.tx_hashes = <<>>, !.current_holder = "sender",
                             !.i = 0,
                             !.pc = IF Len(rt.path) - 1 > 0 THEN "swapping"
                                    ELSE "transferring"]
    /\ UNCHANGED txpool
    /\ UNCHANGED routerVars
    /\ UNCHANGED thr
    /\ UNCHANGED pay

\* the awaited transact() of hop i returns a transaction hash
SwapSubmit ==
    /\ run.pc = "swapping"
    /\ txpool' = Accept(txpool, SwapRequest(run))
    /\ run' = [run EXCEPT !.tx_hashes = Append(@, TxId(txpool)),
                          !.current_holder = PoolAddress,
                          !.i = @ + 1,
                          !.pc = AfterHop(run, run.i + 1)]
    /\ UNCHANGED routerVars
    /\ UNCHANGED thr
    /\ UNCHANGED pay

\* the awaited transact() of hop i raises
SwapRaises ==
    /\ run.pc = "swapping"
    /\ \E c \in Causes : run' = [run EXCEPT !.exc = c, !.pc = "except"]
    /\ UNCHANGED txpool
    /\ UNCHANGED routerVars
    /\ UNCHANGED thr
    /\ UNCHANGED pay

\* the final transfer is accepted, its hash appended and the list returned
TransferSubmit ==
    /\ run.pc = "transferring"
    /\ txpool' = Accept(txpool, TransferRequest(run))
    /\ run' = [run EXCEPT !.tx_hashes = Append(@, TxId(txpool)),
                          !.returned = Append(run.tx_hashes, TxId(txpool)),
                          !.pc = "completed"]
    /\ UNCHANGED routerVars
    /\ UNCHANGED thr
    /\ UNCHANGED pay

\* loading the token ABI or the transfer's transact() raises
TransferRaises ==
    /\ run.pc = "transferring"
    /\ \E c \in Causes : run' = [run EXCEPT !.exc = c, !.pc = "except"]
    /\ UNCHANGED txpool
    /\ UNCHANGED routerVars
    /\ UNCHANGED thr
    /\ UNCHANGED pay

\* variant of ExceptHandler: the last committed swap is swapped back before the raise
ExceptHandlerCompensates ==
    /\ run.pc = "except"
    /\ run' = [run EXCEPT !.raised = [cause |-> run.exc], !.pc = "failed"]
    /\ txpool' =
          IF txpool = <<>> THEN txpool
          ELSE LET last == txpool[Len(txpool)].request
               IN Accept(txpool, [last EXCEPT !.token = last.to, !.to = last.token])
    /\ UNCHANGED routerVars
    /\ UNCHANGED thr
    /\ UNCHANGED pay

\* except Exception as e: print(...); raise
ExceptHandler ==
    /\ run.pc = "except"
    /\ run' = [run EXCEPT !.raised = [cause |-> run.exc], !.pc = "failed"]
    /\ UNCHANGED txpool
    /\ UNCHANGED routerVars
    /\ UNCHANGED thr
    /\ UNCHANGED pay

\* the chain mines a pending transaction: it succeeds or reverts
Mine ==
    /\ \E k \in 1..Len(txpool), st \in {"confirmed", "reverted"} :
          /\ txpool[k].status = "pending"
          /\ txpool' = [txpool EXCEPT ![k].status = st]
    /\ UNCHANGED run
    /\ UNCHANGED routerVars
    /\ UNCHANGED thr
    /\ UNCHANGED pay

Routes ==
    {[path |-> <<"A">>, amounts |-> <<10000>>],
     [path |-> <<"A", "C">>, amounts |-> <<10000, 9900>>],
     [path |-> <<"A", "B", "C">>, amounts |-> <<10000, 9970, 9941>>]}

ExecuteRouteCall == ExecuteRouteStart(Routes)

ExecInit ==
    /\ run = RunIdle
    /\ txpool = <<>>

\* a router constructed against a chain that lists the three tokens
RouterReady ==
    /\ chain = MakeChain([registry |-> "ok", stablecoins |-> <<"A", "B", "C">>],
                         AllOnes, AllOnes, AllOnes, UniformFee, {})
    /\ graph = BuildGraph(<<>>, chain)
    /\ phase = "constructed"
    /\ call = NoCall
    /\ result = NoneResult

InitExec == RouterReady /\ ExecInit /\ ConcInit /\ PayInit

NextExec ==
    \/ ExecuteRouteCall
    \/ SwapSubmit
    \/ SwapRaises
    \/ TransferSubmit
    \/ TransferRaises
    \/ ExceptHandler
    \/ Mine

SpecExec == InitExec /\ [][NextExec]_vars

(***************************************************************************)
(* Two threads calling find_best_route on the same router.  Both work on   *)
(* the one self.graph; a thread can be preempted between the statements    *)
(* below.  The chain does not change while they run.                       *)
(***************************************************************************)
\* find_best_route is entered
ThreadCall(t) ==
    /\ thr[t].pc = "idle"
    /\ \E f \in {"A"}, to \in {"A", "C"}, a \in {10000}, k \in 1..MaxHopsBound :
          thr' = [thr EXCEPT ![t].call = [from_token |-> f, to_token |-> to,
                                         amount |-> a, max_hops |-> k],
                             ![t].pc = "clear"]
    /\ UNCHANGED <<graph, chain, phase, call, result>>
    /\ UNCHANGED execVars
    /\ UNCHANGED pay

\* _build_graph: self.graph.clear()
ThreadClear(t) ==
    /\ thr[t].pc = "clear"
    /\ graph' = GraphClear(graph)
    /\ thr' = [thr EXCEPT ![t].pc = "registry"]
    /\ UNCHANGED <<chain, phase, call, result>>
    /\ UNCHANGED execVars
    /\ UNCHANGED pay

\* _build_graph: stablecoins = getSupportedStablecoins().call()
ThreadRegistry(t) ==
    /\ thr[t].pc = "registry"
    /\ thr' = IF BuildRaises(chain)
              THEN [thr EXCEPT ![t].result = RaisedResult, ![t].pc = "done"]
              ELSE [thr EXCEPT ![t].stablecoins = chain.stablecoins,
                               ![t].k = 1, ![t].pc = "pairs"]
    /\ UNCHANGED routerVars
    /\ UNCHANGED execVars
    /\ UNCHANGED pay

\* _build_graph: one iteration of the nested loops, or their end
ThreadPair(t) ==
    /\ thr[t].pc = "pairs"
    /\ LET coins == thr[t].stablecoins
           k == thr[t].k
       IN IF k > Len(coins) * Len(coins)
          THEN /\ thr' = [thr EXCEPT ![t].pc = "search"]
               /\ graph' = graph
          ELSE /\ thr' = [thr EXCEPT ![t].k = k + 1]
               /\ graph' = PairStep(chain, coins, graph, k)
    /\ UNCHANGED <<chain, phase, call, result>>
    /\ UNCHANGED execVars
    /\ UNCHANGED pay

\* find_best_route: the trivial route, or the enumeration of the paths
ThreadEnumerate(t) ==
    /\ thr[t].pc = "search"
    /\ LET c == thr[t].call
       IN thr' = IF c.from_token = c.to_token
                 THEN [thr EXCEPT ![t].result = TrivialRoute(c.from_token, c.amount),
                                  ![t].pc = "done"]
                 ELSE [thr EXCEPT ![t].enum = EnumeratePaths(graph, c.from_token,
                                                             c.to_token, c.max_hops),
                                  ![t].pc = "evaluate"]
    /\ UNCHANGED routerVars
    /\ UNCHANGED execVars
    /\ UNCHANGED pay

\* find_best_route: the loop over the enumerated paths and the return
ThreadEvaluate(t) ==
    /\ thr[t].pc = "evaluate"
    /\ thr' = [thr EXCEPT ![t].result = EvaluatePaths(graph, thr[t].enum,
                                                      thr[t].call.amount),
                          ![t].pc = "done"]
    /\ UNCHANGED routerVars
    /\ UNCHANGED execVars
    /\ UNCHANGED pay

ConcChains ==
    {MakeChain([registry |-> "ok", stablecoins |-> <<"A", "B", "C">>],
               AllOnes, AllOnes, AllOnes, fees, {}) :
        fees \in {UniformFee, [UniformFee EXCEPT ![<<"A", "C">>] = 100]}}

InitConc ==
    /\ chain \in ConcChains
    /\ graph = BuildGraph(<<>>, chain)
    /\ phase = "constructed"
    /\ call = NoCall
    /\ result = NoneResult
    /\ ExecInit
    /\ ConcInit
    /\ PayInit
    /\ ConcInit

NextConc ==
    \E t \in Threads :
        \/ ThreadCall(t)
        \/ ThreadClear(t)
        \/ ThreadRegistry(t)
        \/ ThreadPair(t)
        \/ ThreadEnumerate(t)
        \/ ThreadEvaluate(t)

SpecConc == InitConc /\ [][NextConc]_vars

(***************************************************************************)
(* PaymentService (src/app/services/payment_service.py): batches of        *)
(* payment records and the transactions sent for them.  A transaction hash *)
(* is the number of the transaction; 0 stands for the empty string.        *)
(***************************************************************************)
MaxTx == 4

MaxRecipients == 2

\* the hash of the next transaction sent: no earlier transaction has it
NewTxHash(p) == p.txs + 1

\* Payment(..., status="pending", tx_hash="") for each entry of distributions
PendingRecords(n, b) ==
    [i \in 1..n |-> [batch |-> b, status |-> "pending", tx_hash |-> 0]]

\* for payment in payments: payment.tx_hash = tx_hash.hex()
SetTxHash(payments, b, h) ==
    [i \in 1..Len(payments) |->
        IF payments[i].batch = b THEN [payments[i] EXCEPT !.tx_hash = h]
        ELSE payments[i]]

\* query(Payment).filter(Payment.tx_hash == tx_hash.hex()): status = "completed"
CompleteByTxHash(payments, h) ==
    [i \in 1..Len(payments) |->
        IF payments[i].tx_hash = h THEN [payments[i] EXCEPT !.status = "completed"]
        ELSE payments[i]]

CountByTxHash(payments, h) ==
    Cardinality({i \in 1..Len(payments) : payments[i].tx_hash = h})

\* create_batch_payment runs to its return
CreateBatchPayment ==
    /\ pay.txs < MaxTx
    /\ \E n \in 1..MaxRecipients :
          LET b == Len(pay.batches) + 1
              h == NewTxHash(pay)
          IN pay' = [pay EXCEPT
                        !.payments = SetTxHash(pay.payments \o PendingRecords(n, b), b, h),
                        !.batches = Append(@, [create_tx |-> h, sent |-> TRUE]),
                        !.txs = h]
    /\ UNCHANGED routerVars
    /\ UNCHANGED execVars
    /\ UNCHANGED thr

\* create_batch_payment raises after the first commit: no transaction is sent
CreateBatchPaymentRaises ==
    /\ pay.txs < MaxTx
    /\ Len(pay.batches) < MaxTx
    /\ \E n \in 1..MaxRecipients :
          LET b == Len(pay.batches) + 1
          IN pay' = [pay EXCEPT
                        !.payments = pay.payments \o PendingRecords(n, b),
                        !.batches = Append(@, [create_tx |-> 0, sent |-> FALSE])]
    /\ UNCHANGED routerVars
    /\ UNCHANGED execVars
    /\ UNCHANGED thr

\* process_batch_payment(batch_id) for a batch create_batch_payment returned
ProcessBatchPayment ==
    /\ pay.txs < MaxTx
    /\ \E b \in 1..Len(pay.batches), receipt \in {0, 1} :
          /\ pay.batches[b].sent
          /\ LET h == NewTxHash(pay)
             IN pay' = [pay EXCEPT
                           !.payments = IF receipt = 1 THEN CompleteByTxHash(@, h)
                                        ELSE @,
                           !.txs = h,
                           !.outcomes =
                               Append(@, [batch |-> b, receipt |-> receipt,
                                          tx_hash |-> h,
                                          status |-> IF receipt = 1 THEN "success"
                                                     ELSE "failed",
                                          payments_processed |->
                                              IF receipt = 1
                                              THEN CountByTxHash(pay.payments, h)
                                              ELSE 0])]
    /\ UNCHANGED routerVars
    /\ UNCHANGED execVars
    /\ UNCHANGED thr

InitPay == RouterReady /\ ExecInit /\ ConcInit /\ PayInit

NextPay == CreateBatchPayment \/ CreateBatchPaymentRaises \/ ProcessBatchPayment

SpecPay == InitPay /\ [][NextPay]_vars

(***************************************************************************)
(* Sequential use of one router.                                           *)
(***************************************************************************)
Init ==
    /\ chain \in InitialChains
    /\ graph = BuildGraph(<<>>, chain)
    /\ phase = "constructed"
    /\ call = NoCall
    /\ result = NoneResult
    /\ ExecInit
    /\ ConcInit
    /\ PayInit

\* the contracts' state moves on between construction and the call
ChainUpdate(family) ==
    /\ phase = "constructed"
    /\ chain' \in family
    /\ phase' = "updated"
    /\ UNCHANGED <<graph, call, result>>
    /\ UNCHANGED execVars
    /\ UNCHANGED pay
    /\ UNCHANGED thr

RouteChainUpdate == ChainUpdate(RouteChains)

FindBestRouteWith(froms, tos, amounts, hops) ==
    /\ phase \in {"constructed", "updated"}
    /\ \E f \in froms, t \in tos, a \in amounts, k \in hops :
          /\ call' = [from_token |-> f, to_token |-> t, amount |-> a, max_hops |-> k]
          /\ result' = FindBestRoute(graph, chain, f, t, a, k)
    /\ graph' = BuildGraph(graph, chain)
    /\ phase' = "returned"
    /\ UNCHANGED chain
    /\ UNCHANGED execVars
    /\ UNCHANGED pay
    /\ UNCHANGED thr

FindBestRouteCall == FindBestRouteWith(Tokens, Tokens, Amounts, 0..MaxHopsBound)

Next == RouteChainUpdate \/ FindBestRouteCall

Spec == Init /\ [][Next]_vars

(***************************************************************************)
(* The graph refresh of a call, over the chain states of the graph build.  *)
(***************************************************************************)
BuildChainUpdate == ChainUpdate(BuildChains)

RefreshCall == FindBestRouteWith({"A"}, {"A", "C"}, {10000}, {MaxHopsBound})

NextBuild == BuildChainUpdate \/ RefreshCall

SpecBuild == Init /\ [][NextBuild]_vars

(***************************************************************************)
(* Reference definitions the properties are stated with: the simple paths  *)
(* of a graph as a set, and the amounts and fees along a path.             *)
(***************************************************************************)
IsSimplePath(g, p, source, target, max_hops) ==
    /\ Len(p) >= 2
    /\ Len(p) - 1 <= max_hops
    /\ p[1] = source
    /\ p[Len(p)] = target
    /\ \A i, j \in 1..Len(p) : i # j => p[i] # p[j]
    /\ \A i \in 1..(Len(p) - 1) : HasEdge(g, p[i], p[i + 1])

SimplePathSet(g, source, target, max_hops) ==
    {p \in UNION {[1..n -> Tokens] : n \in 2..(max_hops + 1)} :
        IsSimplePath(g, p, source, target, max_hops)}

RECURSIVE AmountAt(_, _, _, _)
AmountAt(g, p, amount, i) ==
    IF i = 1 THEN amount
    ELSE LET prev == AmountAt(g, p, amount, i - 1)
             e == EdgeData(g, p[i - 1], p[i])
         IN IntTrunc((prev - ((prev * e.fee) \div BpsDenominator)) * e.weight[1],
                     e.weight[2])

HopFee(g, p, amount, i) ==
    (AmountAt(g, p, amount, i) * EdgeData(g, p[i], p[i + 1]).fee) \div BpsDenominator

RECURSIVE SumTo(_, _)
SumTo(f, n) == IF n = 0 THEN 0 ELSE f[n] + SumTo(f, n - 1)

PathFee(g, p, amount) ==
    SumTo([i \in 1..(Len(p) - 1) |-> HopFee(g, p, amount, i)], Len(p) - 1)

Returned == phase = "returned"

ReturnedRoute == Returned /\ result.status = "route"

(***************************************************************************)
(* C1: a returned route has the minimum total fee: no simple path from     *)
(* from_token to to_token with at most max_hops hops in the graph the call *)
(* built has a strictly lower fee, computed hop by hop, than the route.    *)
(***************************************************************************)
C1_MinimumFee ==
    (ReturnedRoute /\ call.from_token # call.to_token) =>
        \A p \in SimplePathSet(graph, call.from_token, call.to_token, call.max_hops) :
            PathFee(graph, p, call.amount) >= result.total_fee

\* A->B->C at fee 30 + 29 = 59 is returned although the direct edge A->C costs 100
C1_Witness ==
    /\ ReturnedRoute
    /\ call = [from_token |-> "A", to_token |-> "C", amount |-> 10000, max_hops |-> 2]
    /\ HasEdge(graph, "A", "C")
    /\ EdgeData(graph, "A", "C").fee = 100
    /\ PathFee(graph, <<"A", "C">>, 10000) = 100
    /\ result.path = <<"A", "B", "C">>
    /\ result.amounts = <<10000, 9970, 9941>>
    /\ result.total_fee = 59

(***************************************************************************)
(* C5: find_best_route(t, t, amount, k) returns the trivial route          *)
(* path = [t], amounts = [amount], total_fee = 0, estimated_gas = 21000    *)
(* whatever the registry and the pool answer.                              *)
(***************************************************************************)
C5_TrivialRoute ==
    (Returned /\ call.from_token = call.to_token /\ call.amount > 0) =>
        result = RouteResult(<<call.from_token>>, <<call.amount>>, 0, 21000)

(***************************************************************************)
(* C6: for from_token # to_token, when the registry lists no token or the  *)
(* graph the call built has no simple path within max_hops hops (also when *)
(* an endpoint is not a node), find_best_route returns None and does not   *)
(* raise.                                                                  *)
(***************************************************************************)
C6_NoRouteIsNone ==
    (/\ Returned
     /\ call.from_token # call.to_token
     /\ chain.registry = "ok"
     /\ \/ chain.stablecoins = <<>>
        \/ SimplePathSet(graph, call.from_token, call.to_token, call.max_hops) = {})
    => result = NoneResult

\* an endpoint that is no node of the graph, while the other one is
C6_Witness ==
    /\ Returned
    /\ call.from_token # call.to_token
    /\ chain.registry = "ok"
    /\ call.max_hops >= 1
    /\ call.from_token \in Nodes(graph)
    /\ call.to_token \notin Nodes(graph)
    /\ result = NoneResult

(***************************************************************************)
(* C10: the total fee of a returned route is the sum over its hops of      *)
(* floor(amounts[i] * fee_i / 10000), with fee_i the fee of the edge       *)
(* (path[i], path[i+1]) of the graph, recomputed from the returned path    *)
(* and amounts.                                                            *)
(***************************************************************************)
C10_TotalFeeIsSum ==
    ReturnedRoute =>
        result.total_fee =
            SumTo([i \in 1..(Len(result.path) - 1) |->
                      (result.amounts[i]
                         * EdgeData(graph, result.path[i], result.path[i + 1]).fee)
                      \div 10000],
                  Len(result.path) - 1)

\* a two-hop route whose second fee is taken on the reduced amount
C10_Witness ==
    /\ ReturnedRoute
    /\ Len(result.path) = 3
    /\ result.amounts[2] < result.amounts[1]
    /\ result.total_fee = 59


(***************************************************************************)
(* C8: a failure of a query made for one ordered pair (a, b), a zero       *)
(* destination price included, removes only the edge a->b: the build does  *)
(* not raise, and every other ordered pair of supported tokens whose       *)
(* queries succeed and whose destination has enough liquidity has its edge.*)
(***************************************************************************)
Supported(c, a, b) ==
    a # b /\ a \in Range(c.stablecoins) /\ b \in Range(c.stablecoins)

PairFailed(c, a, b) == (\E q \in Queries : <<a, b, q>> \in c.failing) \/ c.price[b] = 0

C8_FailureSkipsOneEdge ==
    (Returned /\ chain.registry = "ok") =>
        /\ result.status # "raised"
        /\ \A a, b \in Tokens :
              Supported(chain, a, b) =>
                 /\ PairFailed(chain, a, b) => ~HasEdge(graph, a, b)
                 /\ (~PairFailed(chain, a, b) /\ chain.balance[b] >= chain.minLiquidity[b])
                       => HasEdge(graph, a, b)

\* a price query fails for a->b, and another edge into b is still built
C8_Witness ==
    /\ Returned
    /\ chain.registry = "ok"
    /\ \E a, b, x \in Tokens :
          /\ Supported(chain, a, b) /\ Supported(chain, x, b) /\ x # a
          /\ <<a, b, "getStablecoinPrice">> \in chain.failing
          /\ chain.balance[b] >= chain.minLiquidity[b]
          /\ ~HasEdge(graph, a, b)
          /\ HasEdge(graph, x, b)

(***************************************************************************)
(* C9: after a build in which every query succeeds (none raises and no     *)
(* supported token has price zero), the edge a->b is in the graph exactly  *)
(* when a and b are distinct supported tokens and the pool balance of b is *)
(* at least the minimum liquidity of b; in particular no self edge, no     *)
(* edge at an unsupported token and no edge of an earlier build remains,   *)
(* and no edge is held twice.                                              *)
(***************************************************************************)
AllQueriesSucceed(c) ==
    /\ c.registry = "ok"
    /\ c.failing = {}
    /\ \A t \in Range(c.stablecoins) : c.price[t] # 0

C9_EdgeIffLiquid ==
    (Returned /\ AllQueriesSucceed(chain)) =>
        /\ \A a, b \in Tokens :
              HasEdge(graph, a, b) <=>
                 (Supported(chain, a, b) /\ chain.balance[b] >= chain.minLiquidity[b])
        /\ \A i, j \in 1..Len(graph) :
              (graph[i].from = graph[j].from /\ graph[i].to = graph[j].to) => i = j

\* one destination exactly at its minimum has its edge, one below it has none
C9_Witness ==
    /\ Returned
    /\ AllQueriesSucceed(chain)
    /\ \E a, b, x, y \in Tokens :
          /\ Supported(chain, a, b) /\ Supported(chain, x, y)
          /\ chain.balance[b] = chain.minLiquidity[b]
          /\ HasEdge(graph, a, b)
          /\ chain.balance[y] < chain.minLiquidity[y]
          /\ ~HasEdge(graph, x, y)

(***************************************************************************)
(* C2: when execute_route fails at hop i, what it raises to the caller is  *)
(* a RouteExecutionFailure that carries the failing hop index i, the       *)
(* transaction identifiers committed by the hops before it, and the cause. *)
(***************************************************************************)
C2_FailureCarriesContext ==
    run.pc = "failed" =>
        /\ "failed_hop" \in DOMAIN run.raised
        /\ "tx_hashes" \in DOMAIN run.raised
        /\ run.raised.failed_hop = run.i
        /\ run.raised.tx_hashes = run.tx_hashes
        /\ run.raised.cause = run.exc

(***************************************************************************)
(* C3: once a swap or the final transfer of a run has raised, the run      *)
(* submits nothing more (no swap, no transfer, no reversing transaction);  *)
(* Failed and Completed are terminal, and the transactions submitted       *)
(* before stay as they were submitted, a confirmed one staying confirmed.  *)
(***************************************************************************)
RunOver == run.pc \in {"except", "failed", "completed"}

C3_FailedIsTerminal ==
    [][RunOver =>
          /\ Len(txpool') = Len(txpool)
          /\ \A k \in 1..Len(txpool) :
                /\ txpool'[k].request = txpool[k].request
                /\ txpool[k].status = "confirmed" => txpool'[k].status = "confirmed"
          /\ run'.tx_hashes = run.tx_hashes
          /\ run.pc \in {"failed", "completed"} => run' = run]_vars

\* hop 1 of a two-hop route failed after hop 0 was committed and confirmed
C3_Witness ==
    /\ run.pc = "failed"
    /\ Len(run.route.path) = 3
    /\ run.i = 1
    /\ run.tx_hashes = <<1>>
    /\ Len(txpool) = 1
    /\ txpool[1].status = "confirmed"

(***************************************************************************)
(* C4: within a run, a swap or the final transfer is submitted only after  *)
(* the transaction submitted before it has been confirmed, and no two      *)
(* submissions of the run are in flight at the same time.                  *)
(***************************************************************************)
C4_ConfirmedBeforeNext ==
    /\ \A k \in 2..Len(txpool) : txpool[k].prev = "confirmed"
    /\ Cardinality({k \in 1..Len(txpool) : txpool[k].status = "pending"}) <= 1

(***************************************************************************)
(* C7: when two find_best_route calls run concurrently on one router, what *)
(* each call returns is what it would return running alone against the     *)
(* chain state it read.                                                    *)
(***************************************************************************)
C7_ConcurrentCallsIsolated ==
    \A t \in Threads :
        thr[t].pc = "done" =>
            thr[t].result = FindBestRoute(<<>>, chain, thr[t].call.from_token,
                                          thr[t].call.to_token, thr[t].call.amount,
                                          thr[t].call.max_hops)

C12_EstimatedGas ==
    ReturnedRoute =>
        result.estimated_gas = 21000 + 100000 * (Len(result.path) - 1)

\* a two-hop route returned although a one-hop candidate was examined too
C12_Witness ==
    /\ ReturnedRoute
    /\ Len(result.path) = 3
    /\ HasEdge(graph, call.from_token, call.to_token)
    /\ result.estimated_gas = 221000

(***************************************************************************)
(* C14: a route returned for from_token # to_token starts at from_token,   *)
(* ends at to_token, repeats no token, has between 1 and max_hops hops and *)
(* follows edges of the graph the call built; and the candidates the call  *)
(* compares are exactly the simple paths of that graph within max_hops.    *)
(***************************************************************************)
C14_RouteIsSimplePath ==
    (ReturnedRoute /\ call.from_token # call.to_token) =>
        LET p == result.path
            hops == Len(p) - 1
        IN /\ p[1] = call.from_token
           /\ p[Len(p)] = call.to_token
           /\ \A i, j \in 1..Len(p) : i # j => p[i] # p[j]
           /\ hops >= 1 /\ hops <= call.max_hops
           /\ \A i \in 1..hops : HasEdge(graph, p[i], p[i + 1])
           /\ Range(AllSimplePaths(graph, call.from_token, call.to_token,
                                   call.max_hops))
                = SimplePathSet(graph, call.from_token, call.to_token, call.max_hops)

\* a call limited to one hop on a graph that also has a two-hop path
C14_Witness ==
    /\ ReturnedRoute
    /\ call.from_token # call.to_token
    /\ call.max_hops = 1
    /\ Len(result.path) = 2
    /\ SimplePathSet(graph, call.from_token, call.to_token, 2)
          # SimplePathSet(graph, call.from_token, call.to_token, 1)

(***************************************************************************)
(* C15: among the candidates of minimum total fee the returned route is    *)
(* the first in the enumeration order of the paths: every candidate before *)
(* it has a strictly higher fee and none has a lower one.                  *)
(***************************************************************************)
Candidates == AllSimplePaths(graph, call.from_token, call.to_token, call.max_hops)

C15_FirstOfTheCheapest ==
    (ReturnedRoute /\ call.from_token # call.to_token) =>
        \E i \in 1..Len(Candidates) :
            /\ result.path = Candidates[i]
            /\ \A j \in 1..Len(Candidates) :
                  PathFee(graph, Candidates[j], call.amount) >= result.total_fee
            /\ \A j \in 1..(i - 1) :
                  PathFee(graph, Candidates[j], call.amount) > result.total_fee

\* two candidates tie at the minimum fee and the one enumerated first is returned
C15_Witness ==
    /\ ReturnedRoute
    /\ call.from_token # call.to_token
    /\ Len(Candidates) = 2
    /\ result.path = Candidates[1]
    /\ PathFee(graph, Candidates[2], call.amount) = result.total_fee
    /\ PathFee(graph, Candidates[1], call.amount) = result.total_fee

(***************************************************************************)
(* C13: a run in which every call succeeds submits one swap per            *)
(* consecutive pair of route.path, in path order, then one transfer of     *)
(* amounts[last] of the final token to the recipient, and returns the      *)
(* identifiers in submission order, the transfer's last; a single-node     *)
(* route submits the transfer only.                                        *)
(***************************************************************************)
C13_SuccessfulRun ==
    run.pc = "completed" =>
        LET p == run.route.path
            n == Len(p)
        IN /\ Len(txpool) = n
           /\ \A k \in 1..(n - 1) :
                 /\ txpool[k].request.kind = "swap"
                 /\ txpool[k].request.token = p[k]
                 /\ txpool[k].request.to = p[k + 1]
           /\ txpool[n].request.kind = "transfer"
           /\ txpool[n].request.token = p[n]
           /\ txpool[n].request.to = run.recipient
           /\ txpool[n].request.amount = run.route.amounts[n]
           /\ run.returned = [k \in 1..n |-> k]

\* a two-hop route ran to completion: two swaps, then the transfer
C13_Witness ==
    /\ run.pc = "completed"
    /\ run.route.path = <<"A", "B", "C">>
    /\ run.returned = <<1, 2, 3>>
    /\ txpool[3].request.kind = "transfer"

(***************************************************************************)
(* C16: the request of hop i is swap(path[i], path[i+1], amounts[i],       *)
(* floor(amounts[i+1] * 99 / 100)) sent from the current holder, which is  *)
(* the sender for hop 0 and the pool for every later hop; the transfer is  *)
(* sent from the pool when the route has a hop and from the sender when it *)
(* has a single node.                                                      *)
(***************************************************************************)
C16_RequestsAndHolder ==
    LET p == run.route.path
        a == run.route.amounts
    IN \A k \in 1..Len(txpool) :
          IF k <= Len(p) - 1
          THEN /\ txpool[k].request.kind = "swap"
               /\ txpool[k].request.token = p[k]
               /\ txpool[k].request.to = p[k + 1]
               /\ txpool[k].request.amount = a[k]
               /\ txpool[k].request.min_out = (a[k + 1] * 99) \div 100
               /\ txpool[k].request.sender = IF k = 1 THEN run.sender ELSE "pool"
          ELSE /\ txpool[k].request.kind = "transfer"
               /\ txpool[k].request.sender = IF Len(p) > 1 THEN "pool" ELSE run.sender

\* the second swap of a two-hop route, sent from the pool with minimum 9841
C16_Witness ==
    /\ run.route.path = <<"A", "B", "C">>
    /\ Len(txpool) = 3
    /\ txpool[2].request.sender = "pool"
    /\ txpool[2].request.amount = 9970
    /\ txpool[2].request.min_out = 9841
    /\ txpool[3].request.sender = "pool"

(***************************************************************************)
(* C17: once process_batch_payment has obtained a receipt with status 1    *)
(* for a batch whose payments create_batch_payment recorded as pending,    *)
(* every payment record of that batch is completed; a receipt with another *)
(* status leaves the records of the batch as they were.                    *)
(***************************************************************************)
C17_BatchCompleted ==
    \A k \in 1..Len(pay.outcomes) :
        pay.outcomes[k].receipt = 1 =>
            \A i \in 1..Len(pay.payments) :
                pay.payments[i].batch = pay.outcomes[k].batch
                    => pay.payments[i].status = "completed"
====
